---------------------------- MODULE Spec2Model ----------------------------
(***************************************************************************)
(* A model of the school administration backend of src/index.js: teacher   *)
(* registration and login (bcrypt credentials, JWT tokens), the            *)
(* authenticateToken gate, and the class / student endpoints over the      *)
(* three mongoose collections.                                             *)
(*                                                                         *)
(* Strings whose content matters are sequences of one-character strings.   *)
(* Time is Date.now(), in milliseconds.                                    *)
(***************************************************************************)
EXTENDS Integers, Sequences, FiniteSets, TLC

VARIABLES
    teachers,   \* collection "teachers": _id -> document
    classes,    \* collection "classes":  _id -> document
    students,   \* collection "students": _id -> document
    nextId,     \* [teachers, classes, students]: the next fresh ObjectId
    now,        \* Date.now(), milliseconds
    ticks,      \* how many times the clock has been advanced
    issued,     \* the tokens clients hold: [token, at], at the time of the
                \* /login that issued it
    submitted,  \* history: teacher _id -> the plaintext password of the
                \* registration that created it
    reg,        \* the /register requests in flight between findOne and save
    listing,    \* the student listing in flight between its store reads
    last        \* the most recent response sent, with the request it answers

vars ==
    <<teachers, classes, students, nextId, now, ticks, issued, submitted, reg,
      listing, last>>

----------------------------------------------------------------------------
(* Bounds of the model *)

MaxTeachers == 2
MaxClasses == 1
MaxStudents == 2
MaxTokens == 1
MaxTicks == 2
NumRegProcs == 2

(* Program and library constants *)

MinPasswordLen == 8
BcryptKeyLen == 72
ExpiresInSec == 3600
MsPerSec == 1000

----------------------------------------------------------------------------
(* Strings *)

RECURSIVE Rep(_, _)
Rep(c, n) == IF n = 0 THEN <<>> ELSE <<c>> \o Rep(c, n - 1)

\* mongoose's `trim: true` setter: String.prototype.trim
RECURSIVE Trim(_)
Trim(s) ==
    IF Len(s) = 0 THEN s
    ELSE IF Head(s) = " " THEN Trim(Tail(s))
    ELSE IF s[Len(s)] = " " THEN Trim(SubSeq(s, 1, Len(s) - 1))
    ELSE s

Letters == {"a", "b", "c", "o", "x", "A"}

\* validator.js isEmpty: the string has length 0
IsEmpty(s) == Len(s) = 0

\* validator.js isEmail's user part: dot-separated non-empty atoms
IsUserPart(u) ==
    /\ Len(u) > 0
    /\ \A i \in 1..Len(u) : u[i] \in Letters \cup {"."}
    /\ u[1] # "." /\ u[Len(u)] # "."
    /\ \A i \in 1..(Len(u) - 1) : ~(u[i] = "." /\ u[i + 1] = ".")

\* validator.js isFQDN: labels separated by dots, a top-level label of two
\* letters or more
IsFQDN(d) ==
    /\ Len(d) > 0
    /\ \A i \in 1..Len(d) : d[i] \in Letters \cup {"."}
    /\ d[1] # "." /\ d[Len(d)] # "."
    /\ \A i \in 1..(Len(d) - 1) : ~(d[i] = "." /\ d[i + 1] = ".")
    /\ \E k \in 1..Len(d) :
          /\ d[k] = "."
          /\ \A j \in (k + 1)..Len(d) : d[j] # "."
          /\ Len(d) - k >= 2

\* validator.js isEmail: user@domain, split at the last "@"
IsEmail(s) ==
    \E k \in 1..Len(s) :
        /\ s[k] = "@"
        /\ \A j \in (k + 1)..Len(s) : s[j] # "@"
        /\ IsUserPart(SubSeq(s, 1, k - 1))
        /\ IsFQDN(SubSeq(s, k + 1, Len(s)))

----------------------------------------------------------------------------
(* Validators: each returns the messages of the checks that fail, in order *)

\* A validation that stops at the first failing check
MsgsFailFast(checks) ==
    LET failing == {i \in 1..Len(checks) : ~checks[i][1]}
    IN IF failing = {} THEN <<>>
       ELSE <<checks[CHOOSE i \in failing : \A j \in failing : i <= j][2]>>

\* validationResult(req).array(): every check runs; the messages of those that
\* fail, in the order of the checks
Msgs(checks) ==
    LET F[i \in 0..Len(checks)] ==
            IF i = 0 THEN <<>>
            ELSE IF checks[i][1] THEN F[i - 1]
            ELSE Append(F[i - 1], checks[i][2])
    IN F[Len(checks)]

teacherRegistrationValidator(body) ==
    Msgs(<< <<~IsEmpty(body.name), "Name is required">>,
            <<~IsEmpty(body.email), "Email is required">>,
            <<IsEmail(body.email), "Email is invalid">>,
            <<~IsEmpty(body.password), "Password is required">>,
            <<Len(body.password) >= MinPasswordLen,
              "Password must be at least 8 characters long">> >>)

teacherLoginValidator(body) ==
    Msgs(<< <<~IsEmpty(body.email), "Email is required">>,
            <<IsEmail(body.email), "Email is invalid">>,
            <<~IsEmpty(body.password), "Password is required">> >>)

----------------------------------------------------------------------------
(* bcryptjs *)

\* The Blowfish key schedule reads BcryptKeyLen bytes of the NUL-terminated
\* password, cycling over it when it is shorter.
BcryptKey(p) ==
    LET z == Append(p, "NUL")
    IN [i \in 1..BcryptKeyLen |-> z[((i - 1) % Len(z)) + 1]]

\* bcrypt.hash(password, 10) with the salt it generated: version and cost,
\* the salt, then the digest (an injective image of salt and key)
BcryptHash(p, salt) == <<"$2a$10$", salt>> \o BcryptKey(p)

\* bcrypt.compare: hash the candidate with the salt embedded in the hash
BcryptCompare(p, h) == BcryptHash(p, h[2]) = h

Salts == {"s1", "s2"}

----------------------------------------------------------------------------
(* jsonwebtoken *)

JWT_SECRET == "secret"

NowSec(ms) == ms \div MsPerSec

Signature(secret, id, iat, exp) == <<secret, id, iat, exp>>

\* jwtToken.sign({ id }, secret, { expiresIn: "1h" })
JwtSign(id, secret, ms) ==
    [id |-> id, iat |-> NowSec(ms), exp |-> NowSec(ms) + ExpiresInSec,
     sig |-> Signature(secret, id, NowSec(ms), NowSec(ms) + ExpiresInSec)]

IsJwt(piece) == "sig" \in DOMAIN piece

\* A verification that still accepts the token at its expiry instant
JwtVerifyLate(seg, secret, ms) ==
    /\ Len(seg) = 1
    /\ "sig" \in DOMAIN seg[1]
    /\ seg[1].sig = <<secret, seg[1].id, seg[1].iat, seg[1].exp>>
    /\ ms \div MsPerSec <= seg[1].exp

\* jwtToken.verify(token, secret): TRUE when it returns the payload, FALSE
\* when it throws (malformed, bad signature, expired)
JwtVerify(seg, secret, ms) ==
    /\ Len(seg) = 1
    /\ IsJwt(seg[1])
    /\ seg[1].sig = Signature(secret, seg[1].id, seg[1].iat, seg[1].exp)
    /\ NowSec(ms) < seg[1].exp


----------------------------------------------------------------------------
(* The Authorization header: absent, or a string of pieces, each a word, a
   space or a token *)

W(w) == [w |-> w]
SP == W(" ")

NoHeader == [present |-> FALSE, value |-> <<>>]
Hdr(v) == [present |-> TRUE, value |-> v]

\* String.prototype.split(' ')
RECURSIVE Split(_)
Split(s) ==
    IF \A i \in 1..Len(s) : s[i] # SP THEN <<s>>
    ELSE LET k == CHOOSE i \in 1..Len(s) :
                      s[i] = SP /\ \A j \in 1..(i - 1) : s[j] # SP
         IN <<SubSeq(s, 1, k - 1)>> \o Split(SubSeq(s, k + 1, Len(s)))

\* authHeader && authHeader.split(' ')[1]: falsy when the header is absent or
\* empty, or has no second word, or an empty one
HeaderToken(h) ==
    IF ~h.present \/ h.value = <<>> THEN [truthy |-> FALSE, seg |-> <<>>]
    ELSE LET parts == Split(h.value)
         IN IF Len(parts) < 2 THEN [truthy |-> FALSE, seg |-> <<>>]
            ELSE [truthy |-> parts[2] # <<>>, seg |-> parts[2]]

\* A gate that consults the store: it admits a token only while a student
\* record with the token's id exists
authenticateTokenConsultsStore(h, ms) ==
    LET token == HeaderToken(h)
    IN IF ~token.truthy THEN "401"
       ELSE IF /\ JwtVerify(token.seg, JWT_SECRET, ms)
               /\ token.seg[1].id \in DOMAIN students
       THEN "next"
       ELSE "400"

\* authenticateToken: "next" (the handler runs), or the status it answers
authenticateToken(h, ms) ==
    LET token == HeaderToken(h)
    IN IF ~token.truthy THEN "401"
       ELSE IF JwtVerify(token.seg, JWT_SECRET, ms) THEN "next"
       ELSE "400"

----------------------------------------------------------------------------
(* Responses *)

NoResponse == [op |-> "none", status |-> 0]

\* A gate that tells an expired token from the other bad tokens
GateRejectionTellsExpiry(op, h, outcome) ==
    IF outcome = "401"
    THEN [op |-> op, hdr |-> h, status |-> 401,
          message |-> "Access Denied: No Token Provided"]
    ELSE LET parts == Split(h.value)
         IN IF /\ Len(parts[2]) = 1
               /\ "exp" \in DOMAIN parts[2][1]
               /\ now \div MsPerSec >= parts[2][1].exp
            THEN [op |-> op, hdr |-> h, status |-> 401,
                  message |-> "Token Expired"]
            ELSE [op |-> op, hdr |-> h, status |-> 400,
                  message |-> "Invalid Token"]

\* What authenticateToken answers when it does not call next()
GateRejection(op, h, outcome) ==
    IF outcome = "401"
    THEN [op |-> op, hdr |-> h, status |-> 401,
          message |-> "Access Denied: No Token Provided"]
    ELSE [op |-> op, hdr |-> h, status |-> 400, message |-> "Invalid Token"]

----------------------------------------------------------------------------
(* The teachers collection *)

IdsOf(coll) == DOMAIN coll

Insert(coll, id, doc) ==
    [i \in IdsOf(coll) \cup {id} |-> IF i = id THEN doc ELSE coll[i]]

\* A lookup that filters on the wrong path
FindTeachersByName(email) ==
    {t \in DOMAIN teachers : teachers[t].name = Trim(email)}

\* Teacher.findOne({ email }): the query value is cast through the schema's
\* setters (trim); the ids of the matching documents
FindTeachersByEmail(email) ==
    {t \in IdsOf(teachers) : teachers[t].email = Trim(email)}

\* new Teacher({ name, email, password, address }) under teacherSchema
NewTeacher(body, hashedPassword) ==
    [name |-> Trim(body.name), email |-> Trim(body.email),
     password |-> hashedPassword, address |-> Trim(body.address),
     status |-> "ACTIVE"]

\* A collection without the unique index
NoUniqueIndex(doc) == FALSE

\* The unique index on email: whether inserting doc is a duplicate key
DuplicateKey(doc) == \E t \in IdsOf(teachers) : teachers[t].email = doc.email

RegProcs == 1..NumRegProcs

Idle == [pc |-> "idle"]

\* No student listing is between its reads
NotListing == [pc |-> "idle"]

Pending == {p \in RegProcs : reg[p].pc = "save"}

Init ==
    /\ teachers = <<>>
    /\ classes = <<>>
    /\ students = <<>>
    /\ nextId = [teachers |-> 1, classes |-> 1, students |-> 1]
    /\ now = 0
    /\ ticks = 0
    /\ issued = {}
    /\ submitted = <<>>
    /\ reg = [p \in RegProcs |-> Idle]
    /\ listing = NotListing
    /\ last = NoResponse

\* POST /register up to the answer of Teacher.findOne; the request takes
\* the first free slot of reg
Register(p, body) ==
    /\ reg[p].pc = "idle"
    /\ \A q \in RegProcs : q < p => reg[q].pc # "idle"
    /\ LET errors == teacherRegistrationValidator(body)
       IN IF errors # <<>>
          THEN /\ last' = [op |-> "register", req |-> body, status |-> 400,
                           errors |-> errors]
               /\ UNCHANGED reg
          ELSE IF FindTeachersByEmail(body.email) # {}
          THEN /\ last' = [op |-> "register", req |-> body, status |-> 400,
                           message |-> "Email already exists"]
               /\ UNCHANGED reg
          ELSE /\ Cardinality(IdsOf(teachers)) + Cardinality(Pending)
                      < MaxTeachers
               /\ reg' = [reg EXCEPT ![p] = [pc |-> "save", req |-> body]]
               /\ UNCHANGED last
    /\ UNCHANGED <<teachers, classes, students, nextId, now, ticks,
                   listing, issued,
                   submitted>>

\* POST /register from bcrypt.hash to the response
RegisterSave(p, salts) ==
    /\ reg[p].pc = "save"
    /\ \E salt \in salts :
         LET body == reg[p].req
             newTeacher == NewTeacher(body, BcryptHash(body.password, salt))
             id == nextId.teachers
         IN IF DuplicateKey(newTeacher)
            THEN /\ last' = [op |-> "register", req |-> body, status |-> 500,
                             error |-> "E11000 duplicate key"]
                 /\ UNCHANGED <<teachers, nextId, submitted>>
            ELSE /\ teachers' = Insert(teachers, id, newTeacher)
                 /\ submitted' = Insert(submitted, id, body.password)
                 /\ nextId' = [nextId EXCEPT !.teachers = id + 1]
                 /\ last' = [op |-> "register", req |-> body, status |-> 200,
                             user |-> [id |-> id, doc |-> newTeacher],
                             message |-> "Registration is done successfully"]
    /\ reg' = [reg EXCEPT ![p] = Idle]
    /\ UNCHANGED <<classes, students, now, ticks, listing, issued>>

\* A login that issues the token without comparing the password
LoginWithoutCompare(body) ==
    /\ LET errors == teacherLoginValidator(body)
           found == FindTeachersByEmail(body.email)
       IN IF errors # <<>>
          THEN /\ last' = [op |-> "login", req |-> body, status |-> 400,
                           errors |-> errors]
               /\ UNCHANGED issued
          ELSE IF found = {}
          THEN /\ last' = [op |-> "login", req |-> body, status |-> 400,
                           message |-> "Invalid email or password"]
               /\ UNCHANGED issued
          ELSE LET id == CHOOSE t \in found : \A u \in found : t <= u
                   token == JwtSign(id, JWT_SECRET, now)
               IN /\ last' = [op |-> "login", req |-> body, status |-> 200,
                              user |-> [id |-> id, doc |-> teachers[id]],
                              token |-> token,
                              message |-> "Login successful"]
                  /\ issued' = IF Cardinality(issued) < MaxTokens
                               THEN issued \cup {[token |-> token,
                                                   at |-> now]}
                               ELSE issued
    /\ UNCHANGED <<teachers, classes, students, nextId, now, ticks,
                   listing, submitted,
                   reg>>

\* POST /login
Login(body) ==
    /\ LET errors == teacherLoginValidator(body)
           found == FindTeachersByEmail(body.email)
           invalid == [op |-> "login", req |-> body, status |-> 400,
                       message |-> "Invalid email or password"]
       IN IF errors # <<>>
          THEN /\ last' = [op |-> "login", req |-> body, status |-> 400,
                           errors |-> errors]
               /\ UNCHANGED issued
          ELSE IF found = {}
          THEN /\ last' = invalid
               /\ UNCHANGED issued
          ELSE LET id == CHOOSE t \in found : \A u \in found : t <= u
                   teacher == teachers[id]
                   token == JwtSign(id, JWT_SECRET, now)
               IN IF ~BcryptCompare(body.password, teacher.password)
                  THEN /\ last' = invalid
                       /\ UNCHANGED issued
                  ELSE /\ last' = [op |-> "login", req |-> body,
                                   status |-> 200,
                                   user |-> [id |-> id, doc |-> teacher],
                                   token |-> token,
                                   message |-> "Login successful"]
                       /\ issued' = IF Cardinality(issued) < MaxTokens
                                    THEN issued \cup {[token |-> token,
                                                        at |-> now]}
                                    ELSE issued
    /\ UNCHANGED <<teachers, classes, students, nextId, now, ticks,
                   listing, submitted,
                   reg>>

\* Time passes
Tick(d) ==
    /\ ticks < MaxTicks
    /\ now' = now + d
    /\ ticks' = ticks + 1
    /\ UNCHANGED <<teachers, classes, students, nextId, issued, submitted, reg,
                   listing, last>>

----------------------------------------------------------------------------
(* The classes and students collections *)

\* An optional field: <<>> when undefined, <<v>> when it holds v
None == <<>>
Some(v) == <<v>>

\* An ObjectId that no collection holds
DanglingId == MaxTeachers + MaxClasses + MaxStudents + 1

\* A /:id path parameter: an ObjectId, or a string that does not cast to one
Oid(i) == [ok |-> TRUE, id |-> i]
NotAnOid == [ok |-> FALSE, id |-> 0]

Remove(coll, id) == [i \in IdsOf(coll) \ {id} |-> coll[i]]

\* An update that replaces the document by the given fields
MergeReplace(doc, update) ==
    [f \in DOMAIN doc |-> IF f \in DOMAIN update THEN update[f] ELSE <<>>]

\* findByIdAndUpdate's $set of the given fields
Merge(doc, update) ==
    [f \in DOMAIN doc |-> IF f \in DOMAIN update THEN update[f] ELSE doc[f]]

RECURSIVE SortedSeq(_)
SortedSeq(S) ==
    IF S = {} THEN <<>>
    ELSE LET m == CHOOSE x \in S : \A y \in S : x <= y
         IN <<m>> \o SortedSeq(S \ {m})

\* new Class({ standard, section, teacherId }) under classSchema
NewClass(body) ==
    [standard |-> body.standard, section |-> body.section,
     status |-> Some("ACTIVE"), teacherId |-> body.teacherId]

\* mongoose's `required: true` on a String path
Required(v) == v # None /\ v # Some("")

\* classSchema's validators, run by save()
ClassValid(doc) ==
    /\ Required(doc.standard)
    /\ Required(doc.section)
    /\ doc.status \in {None, Some("ACTIVE"), Some("INACTIVE")}

\* new Student({ firstName, lastName, classId, ... }) under studentSchema
NewStudent(body) ==
    [firstName |-> Trim(body.firstName), lastName |-> Trim(body.lastName),
     classId |-> body.classId, parentName |-> Trim(body.parentName),
     address |-> Trim(body.address), city |-> Trim(body.city)]

\* populate('teacherId') on one class document
PopulateTeacher(ref) ==
    IF ref = None THEN [kind |-> "undefined"]
    ELSE IF ref[1] \in IdsOf(teachers)
    THEN [kind |-> "doc", id |-> ref[1], doc |-> teachers[ref[1]]]
    ELSE [kind |-> "null"]

PopulatedClass(c) ==
    [id |-> c, doc |-> [classes[c] EXCEPT !.teacherId = PopulateTeacher(@)]]

\* populate({ path: 'classId', populate: { path: 'teacherId' } }) on one
\* student document
PopulateClass(ref) ==
    IF ref = None THEN [kind |-> "undefined"]
    ELSE IF ref[1] \in IdsOf(classes)
    THEN [kind |-> "doc", class |-> PopulatedClass(ref[1])]
    ELSE [kind |-> "null"]

PopulatedStudent(s) ==
    [id |-> s, doc |-> [students[s] EXCEPT !.classId = PopulateClass(@)]]

\* Class.find().populate('teacherId')
ClassList ==
    LET ids == SortedSeq(IdsOf(classes))
    IN [i \in 1..Len(ids) |-> PopulatedClass(ids[i])]

\* A listing that joins and so drops the students whose class is missing
StudentListInnerJoin ==
    LET ids == SortedSeq({s \in DOMAIN students :
                            students[s].classId # <<>>
                                => students[s].classId[1] \in DOMAIN classes})
    IN [i \in 1..Len(ids) |->
          [id |-> ids[i],
           doc |-> [students[ids[i]] EXCEPT
                      !.classId = IF @ = <<>> THEN [kind |-> "undefined"]
                                  ELSE [kind |-> "doc",
                                        class |-> [id |-> @[1],
                                                   doc |-> classes[@[1]]]]]]]

\* Student.find().populate(...)
StudentList ==
    LET ids == SortedSeq(IdsOf(students))
    IN [i \in 1..Len(ids) |-> PopulatedStudent(ids[i])]

ServerError(op, h, error) ==
    [op |-> op, hdr |-> h, status |-> 500, error |-> error]

UnchangedAuth ==
    UNCHANGED <<teachers, now, ticks, listing, issued, submitted, reg>>

\* A handler that refuses a class whose teacher does not exist
PostClassChecksTeacher(h, body) ==
    LET newClass == NewClass(body)
        id == nextId.classes
    IN /\ IF ~ClassValid(newClass)
          THEN /\ last' = ServerError("POST /class", h, "ValidationError")
               /\ UNCHANGED <<classes, nextId>>
          ELSE IF body.teacherId # None
                  /\ body.teacherId[1] \notin DOMAIN teachers
          THEN /\ last' = [op |-> "POST /class", hdr |-> h, status |-> 400,
                           message |-> "Teacher not found"]
               /\ UNCHANGED <<classes, nextId>>
          ELSE /\ id <= MaxClasses
               /\ classes' = Insert(classes, id, newClass)
               /\ nextId' = [nextId EXCEPT !.classes = id + 1]
               /\ last' = [op |-> "POST /class", hdr |-> h, status |-> 200,
                           class |-> [id |-> id, doc |-> newClass],
                           message |-> "Class added successfully"]
       /\ UNCHANGED students

\* app.post("/class") after the gate
PostClassHandler(h, body) ==
    LET newClass == NewClass(body)
        id == nextId.classes
    IN /\ IF ~ClassValid(newClass)
          THEN /\ last' = ServerError("POST /class", h, "ValidationError")
               /\ UNCHANGED <<classes, nextId>>
          ELSE /\ id <= MaxClasses
               /\ classes' = Insert(classes, id, newClass)
               /\ nextId' = [nextId EXCEPT !.classes = id + 1]
               /\ last' = [op |-> "POST /class", hdr |-> h, status |-> 200,
                           class |-> [id |-> id, doc |-> newClass],
                           message |-> "Class added successfully"]
       /\ UNCHANGED students

\* app.put("/class/:id") after the gate
PutClassHandler(h, param, update) ==
    /\ IF ~param.ok
       THEN /\ last' = ServerError("PUT /class", h, "CastError")
            /\ UNCHANGED classes
       ELSE IF param.id \notin IdsOf(classes)
       THEN /\ last' = [op |-> "PUT /class", hdr |-> h, status |-> 200,
                        param |-> param, class |-> [kind |-> "null"],
                        message |-> "Class updated successfully"]
            /\ UNCHANGED classes
       ELSE LET updatedClass == Merge(classes[param.id], update)
            IN /\ classes' = [classes EXCEPT ![param.id] = updatedClass]
               /\ last' = [op |-> "PUT /class", hdr |-> h, status |-> 200,
                           param |-> param,
                           class |-> [kind |-> "doc", id |-> param.id,
                                      doc |-> updatedClass],
                           message |-> "Class updated successfully"]
    /\ UNCHANGED <<students, nextId>>

\* A delete that also removes the students of the class
DeleteClassCascade(h, param) ==
    /\ IF ~param.ok
       THEN /\ last' = ServerError("DELETE /class", h, "CastError")
            /\ UNCHANGED <<classes, students>>
       ELSE /\ classes' = Remove(classes, param.id)
            /\ students' = [s \in {x \in IdsOf(students) :
                                     students[x].classId # Some(param.id)}
                              |-> students[s]]
            /\ last' = [op |-> "DELETE /class", hdr |-> h, status |-> 200,
                        param |-> param,
                        message |-> "Class deleted successfully"]
    /\ UNCHANGED nextId

\* app.delete("/class/:id") after the gate
DeleteClassHandler(h, param) ==
    /\ IF ~param.ok
       THEN /\ last' = ServerError("DELETE /class", h, "CastError")
            /\ UNCHANGED classes
       ELSE /\ classes' = Remove(classes, param.id)
            /\ last' = [op |-> "DELETE /class", hdr |-> h, status |-> 200,
                        param |-> param,
                        message |-> "Class deleted successfully"]
    /\ UNCHANGED <<students, nextId>>

\* app.get("/classes") after the gate
GetClassesHandler(h) ==
    /\ last' = [op |-> "GET /classes", hdr |-> h, status |-> 200,
                body |-> ClassList]
    /\ UNCHANGED <<classes, students, nextId>>

\* app.post("/student") after the gate
PostStudentHandler(h, body) ==
    LET newStudent == NewStudent(body)
        id == nextId.students
    IN /\ id <= MaxStudents
       /\ students' = Insert(students, id, newStudent)
       /\ nextId' = [nextId EXCEPT !.students = id + 1]
       /\ last' = [op |-> "POST /student", hdr |-> h, status |-> 200,
                   student |-> [id |-> id, doc |-> newStudent],
                   message |-> "Student added successfully"]
       /\ UNCHANGED classes

\* app.put("/student/:id") after the gate
PutStudentHandler(h, param, update) ==
    /\ IF ~param.ok
       THEN /\ last' = ServerError("PUT /student", h, "CastError")
            /\ UNCHANGED students
       ELSE IF param.id \notin IdsOf(students)
       THEN /\ last' = [op |-> "PUT /student", hdr |-> h, status |-> 200,
                        param |-> param, student |-> [kind |-> "null"],
                        message |-> "Student updated successfully"]
            /\ UNCHANGED students
       ELSE LET updatedStudent == Merge(students[param.id], update)
            IN /\ students' = [students EXCEPT ![param.id] = updatedStudent]
               /\ last' = [op |-> "PUT /student", hdr |-> h, status |-> 200,
                           param |-> param,
                           student |-> [kind |-> "doc", id |-> param.id,
                                        doc |-> updatedStudent],
                           message |-> "Student updated successfully"]
    /\ UNCHANGED <<classes, nextId>>

\* A delete that reports a missing record
DeleteStudentChecksExistence(h, param) ==
    /\ IF ~param.ok
       THEN /\ last' = ServerError("DELETE /student", h, "CastError")
            /\ UNCHANGED students
       ELSE IF param.id \notin DOMAIN students
       THEN /\ last' = [op |-> "DELETE /student", hdr |-> h, status |-> 404,
                        param |-> param, message |-> "Student not found"]
            /\ UNCHANGED students
       ELSE /\ students' = [i \in DOMAIN students \ {param.id} |->
                              students[i]]
            /\ last' = [op |-> "DELETE /student", hdr |-> h, status |-> 200,
                        param |-> param,
                        message |-> "Student deleted successfully"]
    /\ UNCHANGED <<classes, nextId>>

\* app.delete("/student/:id") after the gate
DeleteStudentHandler(h, param) ==
    /\ IF ~param.ok
       THEN /\ last' = ServerError("DELETE /student", h, "CastError")
            /\ UNCHANGED students
       ELSE /\ students' = Remove(students, param.id)
            /\ last' = [op |-> "DELETE /student", hdr |-> h, status |-> 200,
                        param |-> param,
                        message |-> "Student deleted successfully"]
    /\ UNCHANGED <<classes, nextId>>

\* A listing that clears the references it cannot resolve
GetStudentsClearsDangling(h) ==
    /\ last' = [op |-> "GET /students", hdr |-> h, status |-> 200,
                body |-> StudentList]
    /\ students' = [s \in DOMAIN students |->
                      IF students[s].classId # <<>>
                         /\ students[s].classId[1] \notin DOMAIN classes
                      THEN [students[s] EXCEPT !.classId = <<>>]
                      ELSE students[s]]
    /\ UNCHANGED <<classes, nextId>>

\* app.get("/students") after the gate
GetStudentsHandler(h) ==
    /\ last' = [op |-> "GET /students", hdr |-> h, status |-> 200,
                body |-> StudentList]
    /\ UNCHANGED <<classes, students, nextId>>

\* The routes behind the gate
ProtectedOps ==
    {"POST /class", "PUT /class", "DELETE /class", "GET /classes",
     "POST /student", "PUT /student", "DELETE /student", "GET /students"}

\* A request to a protected route that authenticateToken answers itself:
\* next() is not called, whatever the request carries besides the header
GateRejects(op, h) ==
    /\ authenticateToken(h, now) # "next"
    /\ last' = GateRejection(op, h, authenticateToken(h, now))
    /\ UNCHANGED <<classes, students, nextId>>
    /\ UnchangedAuth

\* The routes when authenticateToken calls next(): the handler runs on one of
\* the given inputs
PostClass(h, bodies) ==
    /\ authenticateToken(h, now) = "next"
    /\ \E body \in bodies : PostClassHandler(h, body)
    /\ UnchangedAuth

PutClass(h, params, updates) ==
    /\ authenticateToken(h, now) = "next"
    /\ \E param \in params, update \in updates :
          PutClassHandler(h, param, update)
    /\ UnchangedAuth

\* A route registered without the gate
DeleteClassUngated(h, params) ==
    /\ \E param \in params : DeleteClassHandler(h, param)
    /\ UnchangedAuth

DeleteClass(h, params) ==
    /\ authenticateToken(h, now) = "next"
    /\ \E param \in params : DeleteClassHandler(h, param)
    /\ UnchangedAuth

GetClasses(h) ==
    /\ authenticateToken(h, now) = "next"
    /\ GetClassesHandler(h)
    /\ UnchangedAuth

PostStudent(h, bodies) ==
    /\ authenticateToken(h, now) = "next"
    /\ \E body \in bodies : PostStudentHandler(h, body)
    /\ UnchangedAuth

PutStudent(h, params, updates) ==
    /\ authenticateToken(h, now) = "next"
    /\ \E param \in params, update \in updates :
          PutStudentHandler(h, param, update)
    /\ UnchangedAuth

DeleteStudent(h, params) ==
    /\ authenticateToken(h, now) = "next"
    /\ \E param \in params : DeleteStudentHandler(h, param)
    /\ UnchangedAuth

\* A route registered without the gate
GetStudentsUngated(h) ==
    /\ GetStudentsHandler(h)
    /\ UnchangedAuth

GetStudents(h) ==
    /\ authenticateToken(h, now) = "next"
    /\ GetStudentsHandler(h)
    /\ UnchangedAuth

\* app.get("/public/students"): no gate
GetPublicStudents ==
    /\ last' = [op |-> "GET /public/students", status |-> 200,
                body |-> StudentList]
    /\ UNCHANGED <<classes, students, nextId>>
    /\ UnchangedAuth

----------------------------------------------------------------------------
(* Request inputs *)

E1 == <<"a", "@", "x", ".", "c", "o">>
E2 == <<"b", "@", "x", ".", "c", "o">>
ENoAt == <<"a", "x", ".", "c", "o">>
ESpace == <<" ">> \o E1

Pw7 == Rep("x", MinPasswordLen - 1)
Pw8 == Rep("x", MinPasswordLen)
Long1 == Append(Rep("a", BcryptKeyLen), "b")
Long2 == Append(Rep("a", BcryptKeyLen), "c")

\* Registrations that pass validation, and some that fail one check or all
RegBodies ==
    [name : {<<"A">>}, email : {E1, E2}, password : {Pw8, Long1, Long2},
     address : {<<"x">>}]
    \cup [name : {<<>>}, email : {<<>>}, password : {<<>>},
          address : {<<"x">>}]
    \cup [name : {<<"A">>}, email : {ENoAt, ESpace}, password : {Pw8},
          address : {<<"x">>}]
    \cup [name : {<<"A">>}, email : {E1}, password : {Pw7},
          address : {<<"x">>}]

LoginBodies ==
    [email : {E1, E2}, password : {Pw8, Long1, Long2}]
    \cup [email : {<<>>, ESpace}, password : {Pw8}]
    \cup [email : {E1}, password : {<<>>}]

\* Headers a client can send: none, garbage, a token signed with another
\* key, and the tokens login has issued
ForgedToken == JwtSign(1, "guess", now)

Bearer(token) == Hdr(<<W("Bearer"), SP, token>>)

BearerHeaders ==
    {NoHeader, Hdr(<<W("Bearer"), SP, W("garbage")>>),
     Hdr(<<W("Bearer"), SP, ForgedToken>>)}
    \cup {Bearer(i.token) : i \in issued}

\* The same, and the other shapes of header: empty, a lone scheme, another
\* scheme, no scheme, two spaces, a token with its expiry pushed back
GateHeaders ==
    BearerHeaders
    \cup {Hdr(<<>>), Hdr(<<W("Bearer")>>), Hdr(<<W("Bearer"), SP>>)}
    \cup {Hdr(<<W("Basic"), SP, i.token>>) : i \in issued}
    \cup {Hdr(<<i.token>>) : i \in issued}
    \cup {Hdr(<<W("Bearer"), SP, SP, i.token>>) : i \in issued}
    \cup {Hdr(<<W("Bearer"), SP, i.token, W("x")>>) : i \in issued}
    \cup {Bearer([i.token EXCEPT !.exp = @ + ExpiresInSec]) : i \in issued}

OneRegBody ==
    [name |-> <<"A">>, email |-> E1, password |-> Pw8, address |-> <<"x">>]
OneLoginBody == [email |-> E1, password |-> Pw8]

Allocated(coll) == 1..(nextId[coll] - 1)

Params(coll) == {Oid(i) : i \in Allocated(coll) \cup {DanglingId}} \cup {NotAnOid}

ClassBodies ==
    [standard : {None, Some("5")}, section : {Some("A")},
     teacherId : {None, Some(DanglingId)}
                   \cup {Some(t) : t \in Allocated("teachers")}]

ClassUpdates == {[status |-> Some("INACTIVE")]}

StudentBodies ==
    [firstName : {<<"S">>}, lastName : {<<"L">>},
     classId : {None, Some(DanglingId)}
                 \cup {Some(c) : c \in Allocated("classes")},
     parentName : {<<"P">>}, address : {<<"x">>}, city : {<<"y">>}]

StudentUpdates == {[classId |-> Some(c)] : c \in Allocated("classes")}

MsPerHour == ExpiresInSec * MsPerSec

FineSteps == {1, MsPerSec - 1, MsPerHour - MsPerSec + 1, MsPerHour}

----------------------------------------------------------------------------
(* Registration and login, with every shape of input and two registrations
   in flight *)

Next ==
    \/ \E p \in RegProcs, body \in RegBodies : Register(p, body)
    \/ \E p \in RegProcs : RegisterSave(p, Salts)
    \/ \E body \in LoginBodies : Login(body)

Spec == Init /\ [][Next]_vars

(* The gate over time: one teacher, every shape of header, the clock in
   steps around the second and the hour *)

NextGate ==
    \/ Register(1, OneRegBody)
    \/ RegisterSave(1, {"s1"})
    \/ Login(OneLoginBody)
    \/ \E d \in FineSteps : Tick(d)
    \/ \E h \in GateHeaders : GateRejects("GET /classes", h)
    \/ \E h \in GateHeaders : GetClasses(h)

SpecGate == Init /\ [][NextGate]_vars

(* The class and student endpoints behind the gate: one teacher, the clock
   in hours *)

NextData ==
    \/ Register(1, OneRegBody)
    \/ RegisterSave(1, {"s1"})
    \/ Login(OneLoginBody)
    \/ Tick(MsPerHour)
    \/ \E h \in BearerHeaders, op \in ProtectedOps : GateRejects(op, h)
    \/ \E h \in BearerHeaders : PostClass(h, ClassBodies)
    \/ \E h \in BearerHeaders : PutClass(h, Params("classes"), ClassUpdates)
    \/ \E h \in BearerHeaders : DeleteClass(h, Params("classes"))
    \/ \E h \in BearerHeaders : GetClasses(h)
    \/ \E h \in BearerHeaders : PostStudent(h, StudentBodies)
    \/ \E h \in BearerHeaders :
          PutStudent(h, Params("students"), StudentUpdates)
    \/ \E h \in BearerHeaders : DeleteStudent(h, Params("students"))
    \/ \E h \in BearerHeaders : GetStudents(h)
    \/ GetPublicStudents

SpecData == Init /\ [][NextData]_vars

----------------------------------------------------------------------------
(* Properties *)

Has(r, f) == f \in DOMAIN r

Says(r, status, message) ==
    r.status = status /\ Has(r, "message") /\ r.message = message

EmailStored(email) == \E t \in IdsOf(teachers) : teachers[t].email = email

\* C1: a POST /register whose input passes validation and whose email is the
\* email of a stored teacher is answered 400 "Email already exists", and the
\* teachers collection is left as it was (nothing is saved, then or later).
C1_DuplicateEmailRejected ==
    [][\A p \in RegProcs, body \in RegBodies :
          (/\ EmailStored(body.email)
           /\ teacherRegistrationValidator(body) = <<>>
           /\ Register(p, body))
          => /\ last'.op = "register" /\ last'.req = body
             /\ Says(last', 400, "Email already exists")
             /\ teachers' = teachers
             /\ reg' = reg]_vars

C1_Witness ==
    /\ last.op = "register"
    /\ Says(last, 400, "Email already exists")
    /\ EmailStored(last.req.email)

EmailsUnique ==
    \A t, u \in IdsOf(teachers) :
        teachers[t].email = teachers[u].email => t = u

\* C3: no two stored teachers ever share an email, whatever the interleaving
\* of concurrent registrations: of the saves that passed the findOne check
\* with the same email one succeeds, and each later one is answered with an
\* error (500) and stores nothing.
C3_EmailUniqueUnderRace ==
    /\ []EmailsUnique
    /\ [][\A p \in RegProcs :
            (/\ reg[p].pc = "save"
             /\ EmailStored(reg[p].req.email)
             /\ RegisterSave(p, Salts))
            => /\ last'.op = "register" /\ last'.status = 500
               /\ teachers' = teachers]_vars

C3_Witness ==
    /\ last.op = "register"
    /\ last.status = 500
    /\ EmailStored(last.req.email)
    /\ Cardinality(IdsOf(teachers)) = 1

\* C9: the stored password of every teacher is the bcrypt hash of the
\* plaintext submitted at its registration and differs from it, and a login
\* succeeds for a teacher only with exactly that plaintext.
C9_HashedAndOnlyOriginalVerifies ==
    /\ \A t \in IdsOf(teachers) :
          /\ teachers[t].password # submitted[t]
          /\ \E salt \in Salts :
                teachers[t].password = BcryptHash(submitted[t], salt)
    /\ (last.op = "login" /\ last.status = 200)
          => last.req.password = submitted[last.user.id]

LoginShouldSucceed(body) ==
    \E t \in IdsOf(teachers) :
        /\ teachers[t].email = body.email
        /\ BcryptCompare(body.password, teachers[t].password)

\* C10: POST /login issues a token exactly when a teacher with the submitted
\* email exists and the submitted password verifies against that teacher's
\* stored hash; the token is valid and carries that teacher's id; an unknown
\* email and a wrong password get the same answer, 400 "Invalid email or
\* password", without a token.
C10_LoginIssuesTokenIffCredentialsMatch ==
    [][\A body \in LoginBodies :
          (last'.op = "login" /\ Login(body))
          => /\ last'.op = "login" /\ last'.req = body
             /\ Has(last', "token") <=> LoginShouldSucceed(body)
             /\ Has(last', "token")
                   => /\ last'.status = 200
                      /\ last'.token.id \in IdsOf(teachers)
                      /\ teachers[last'.token.id].email = body.email
                      /\ last'.user.id = last'.token.id
                      /\ JwtVerify(<<last'.token>>, JWT_SECRET, now)
             /\ (~LoginShouldSucceed(body)
                   /\ teacherLoginValidator(body) = <<>>)
                   => last' = [op |-> "login", req |-> body, status |-> 400,
                               message |-> "Invalid email or password"]]_vars

C10_Witness ==
    /\ last.op = "login"
    /\ last.status = 200
    /\ last.token.id = 2
    /\ Cardinality(IdsOf(teachers)) = 2

----------------------------------------------------------------------------
(* Properties of the gate *)

\* The header carries a token that verifies at time ms
Verified(h, ms) ==
    /\ HeaderToken(h).truthy
    /\ JwtVerify(HeaderToken(h).seg, JWT_SECRET, ms)

\* What is wrong with the token a header carries (token: HeaderToken(h))
CarriesJwt(token) ==
    token.truthy /\ Len(token.seg) = 1 /\ IsJwt(token.seg[1])

Malformed(token) == token.truthy /\ ~CarriesJwt(token)

WronglySigned(token) ==
    /\ CarriesJwt(token)
    /\ LET t == token.seg[1]
       IN t.sig # Signature(JWT_SECRET, t.id, t.iat, t.exp)

Expired(token, ms) == CarriesJwt(token) /\ NowSec(ms) >= token.seg[1].exp

\* The handler did not run: nothing stored changes and the answer carries
\* nothing read from the store
HandlerDidNotRun ==
    /\ UNCHANGED <<teachers, classes, students, nextId>>
    /\ ~Has(last', "body") /\ ~Has(last', "class") /\ ~Has(last', "student")

\* C2: on every protected endpoint a request without an Authorization header
\* is answered 401, a request whose token is malformed, wrongly signed or
\* expired is answered 400, and in both cases the handler does not run.
C2_RejectedWithoutRunningHandler ==
    [][(last' # last /\ last'.op \in ProtectedOps)
          => /\ ~last'.hdr.present
                  => /\ Says(last', 401, "Access Denied: No Token Provided")
                     /\ HandlerDidNotRun
             /\ LET token == HeaderToken(last'.hdr)
                IN (\/ Malformed(token)
                    \/ WronglySigned(token)
                    \/ Expired(token, now))
                     => /\ Says(last', 400, "Invalid Token")
                        /\ HandlerDidNotRun]_vars

C2_Witness ==
    /\ last.op = "DELETE /student"
    /\ Says(last, 400, "Invalid Token")
    /\ \E i \in issued : last.hdr = Bearer(i.token)
    /\ IdsOf(students) # {}

\* C4 as claimed: a token that login issued at time t is accepted at every
\* time before t + 1 hour and rejected as a bad token from t + 1 hour on.
C4_AcceptedUntilIssueTimePlusTtl ==
    [][\A i \in issued :
          (\/ GetClasses(Bearer(i.token))
           \/ GateRejects("GET /classes", Bearer(i.token)))
          => IF now < i.at + ExpiresInSec * MsPerSec
             THEN last'.status = 200
             ELSE Says(last', 400, "Invalid Token")]_vars

\* C4, amended: the lifetime counts from the issue time rounded down to the
\* whole second. A token that login issued at time t is accepted at every
\* time whose second is before floor(t) + 3600 and rejected as a bad token
\* at every time from that second on.
C4_AcceptedUntilExpirySecond ==
    [][\A i \in issued :
          (\/ GetClasses(Bearer(i.token))
           \/ GateRejects("GET /classes", Bearer(i.token)))
          => IF now \div MsPerSec < (i.at \div MsPerSec) + ExpiresInSec
             THEN last'.status = 200
             ELSE Says(last', 400, "Invalid Token")]_vars

C4_Witness ==
    /\ last.op = "GET /classes"
    /\ Says(last, 400, "Invalid Token")
    /\ \E i \in issued :
          /\ last.hdr = Bearer(i.token)
          /\ i.at % MsPerSec # 0
          /\ now \div MsPerSec = (i.at \div MsPerSec) + ExpiresInSec

\* C7: a class or student record is created, changed or deleted, and
\* GET /classes or GET /students returns data, only in a request whose
\* header carried a token that verified at that moment.
C7_StoreOnlyBehindVerifiedToken ==
    [][(\/ classes' # classes
        \/ students' # students
        \/ /\ last' # last
           /\ last'.op \in {"GET /classes", "GET /students"}
           /\ Has(last', "body"))
          => /\ last'.op \in ProtectedOps
             /\ Verified(last'.hdr, now)]_vars

C7_Witness ==
    /\ last.op = "DELETE /class"
    /\ last.status = 200
    /\ last.param.ok
    /\ last.param.id \in Allocated("classes") \ IdsOf(classes)
    /\ IdsOf(students) # {}

\* C8: a request is admitted only if its Authorization header is "Bearer "
\* followed by a valid token.
C8_OnlyBearerSchemeAdmitted ==
    (last.op \in ProtectedOps /\ last.status = 200)
        => /\ Len(last.hdr.value) >= 2
           /\ last.hdr.value[1] = W("Bearer")
           /\ last.hdr.value[2] = SP

----------------------------------------------------------------------------
(* Properties of the listings *)

RefersToDeletedClass(s) ==
    /\ students[s].classId # None
    /\ students[s].classId[1] \in Allocated("classes") \ IdsOf(classes)

Dangling(s) ==
    /\ students[s].classId # None
    /\ students[s].classId[1] \notin IdsOf(classes)

\* The listing's entry for student s is the stored record with its class
\* field null
ListedWithNullClass(body, s) ==
    \E k \in 1..Len(body) :
        /\ body[k].id = s
        /\ body[k].doc = [students[s] EXCEPT !.classId = [kind |-> "null"]]

IsStudentListing(r) ==
    /\ r.op \in {"GET /students", "GET /public/students"}
    /\ r.status = 200

\* C5: DELETE /class/:id leaves every student record as it was, and a
\* student listing made afterwards contains each student that refers to the
\* deleted class, with a null class field.
C5_DeleteClassKeepsStudents ==
    [][/\ (last'.op = "DELETE /class" \/ ~(IdsOf(classes) \subseteq IdsOf(classes')))
            => students' = students
       /\ (last' # last /\ IsStudentListing(last'))
            => \A s \in IdsOf(students) :
                  RefersToDeletedClass(s)
                     => ListedWithNullClass(last'.body, s)]_vars

C5_Witness ==
    /\ IsStudentListing(last)
    /\ \E s \in IdsOf(students) :
          /\ RefersToDeletedClass(s)
          /\ ListedWithNullClass(last.body, s)

\* C6: GET /students (with a valid token) and GET /public/students succeed
\* and return exactly one entry per stored student; a student whose classId
\* matches no class is listed with a null class field.
C6_ListingKeepsEveryStudent ==
    [][(/\ last' # last
        /\ last'.op \in {"GET /students", "GET /public/students"}
        /\ last'.op = "GET /students" => Verified(last'.hdr, now))
          => /\ last'.status = 200
             /\ Len(last'.body) = Cardinality(IdsOf(students))
             /\ \A s \in IdsOf(students) :
                   /\ Cardinality({k \in 1..Len(last'.body) :
                                     last'.body[k].id = s}) = 1
                   /\ Dangling(s) => ListedWithNullClass(last'.body, s)]_vars

C6_Witness ==
    /\ last.op = "GET /public/students"
    /\ Len(last.body) = 2
    /\ \E s \in IdsOf(students) :
          /\ students[s].classId = Some(DanglingId)
          /\ ListedWithNullClass(last.body, s)


----------------------------------------------------------------------------
(* Validation: every combination of empty, malformed and well-formed fields *)

ValNames == {<<>>, <<"A">>}
ValEmails == {<<>>, ENoAt, E1, E2}
ValPasswords == {<<>>, Pw7, Pw8}

ValRegBodies ==
    [name : ValNames, email : ValEmails, password : ValPasswords,
     address : {<<"x">>}]

ValLoginBodies == [email : ValEmails, password : ValPasswords]

NextValidate ==
    \/ \E p \in RegProcs, body \in ValRegBodies : Register(p, body)
    \/ \E p \in RegProcs : RegisterSave(p, {"s1"})
    \/ \E body \in ValLoginBodies : Login(body)

SpecValidate == Init /\ [][NextValidate]_vars

\* The checks of the two validators, one by one: the messages of those the
\* body fails
FailingRegistrationChecks(body) ==
    {m \in {"Name is required", "Email is required", "Email is invalid",
            "Password is required",
            "Password must be at least 8 characters long"} :
        \/ m = "Name is required" /\ body.name = <<>>
        \/ m = "Email is required" /\ body.email = <<>>
        \/ m = "Email is invalid" /\ ~IsEmail(body.email)
        \/ m = "Password is required" /\ body.password = <<>>
        \/ /\ m = "Password must be at least 8 characters long"
           /\ Len(body.password) < MinPasswordLen}

FailingLoginChecks(body) ==
    {m \in {"Email is required", "Email is invalid", "Password is required"} :
        \/ m = "Email is required" /\ body.email = <<>>
        \/ m = "Email is invalid" /\ ~IsEmail(body.email)
        \/ m = "Password is required" /\ body.password = <<>>}

\* The response is the validation failure of body, listing exactly failing
ListsExactly(r, op, body, failing) ==
    /\ r.op = op /\ r.req = body /\ r.status = 400
    /\ Has(r, "errors")
    /\ {r.errors[i] : i \in 1..Len(r.errors)} = failing
    /\ Len(r.errors) = Cardinality(failing)
    /\ ~Has(r, "token") /\ ~Has(r, "user")

\* C11: for every registration (login) input the violations returned are
\* exactly the messages of all the failing checks among the five (three);
\* when there is one, the answer is 400 whatever the store holds, nothing is
\* stored, no registration goes on to hashing and saving, and no token is
\* issued; when there is none, the answer is not a validation failure.
C11_AllViolationsReported ==
    [][/\ \A p \in RegProcs, body \in ValRegBodies :
             Register(p, body)
             => LET failing == FailingRegistrationChecks(body)
                IN IF failing # {}
                   THEN /\ ListsExactly(last', "register", body, failing)
                        /\ UNCHANGED <<teachers, nextId, reg, issued,
                                       submitted>>
                   ELSE reg' # reg \/ ~Has(last', "errors")
       /\ \A body \in ValLoginBodies :
             Login(body)
             => LET failing == FailingLoginChecks(body)
                IN IF failing # {}
                   THEN /\ ListsExactly(last', "login", body, failing)
                        /\ UNCHANGED <<teachers, nextId, reg, issued,
                                       submitted>>
                   ELSE ~Has(last', "errors")]_vars

C11_Witness ==
    /\ last.op = "register"
    /\ Has(last, "errors")
    /\ Len(last.errors) = 5
    /\ EmailStored(E1)


----------------------------------------------------------------------------
(* One answer for every bad token *)

\* What the client sees of a response: everything but the request it answers
Visible(r) == [f \in DOMAIN r \ {"hdr", "req", "param"} |-> r[f]]

InvalidToken(h, ms) ==
    LET token == HeaderToken(h)
    IN Malformed(token) \/ WronglySigned(token) \/ Expired(token, ms)

\* C12: a request to a protected route whose token is malformed, or wrongly
\* signed, or expired gets the response 400 "Invalid Token" and nothing else:
\* what the client sees is the same value whichever of the three is the
\* reason, and the request changes nothing in the server.
C12_OneAnswerForEveryBadToken ==
    [][\A h \in GateHeaders :
          (/\ InvalidToken(h, now)
           /\ (GetClasses(h) \/ GateRejects("GET /classes", h)))
          => /\ Visible(last') = [op |-> "GET /classes", status |-> 400,
                                  message |-> "Invalid Token"]
             /\ UNCHANGED <<teachers, classes, students, nextId, issued>>]_vars

C12_Witness ==
    /\ last.op = "GET /classes"
    /\ Says(last, 400, "Invalid Token")
    /\ Expired(HeaderToken(last.hdr), now)
    /\ ~WronglySigned(HeaderToken(last.hdr))


----------------------------------------------------------------------------
(* Classes with a dangling teacher *)

NoSuchTeacher(ref) == ref # None /\ ref[1] \notin IdsOf(teachers)

\* The listing's entry for class c is the stored record with its teacher
\* field null
ListedWithNullTeacher(body, c) ==
    \E k \in 1..Len(body) :
        /\ body[k].id = c
        /\ body[k].doc = [classes[c] EXCEPT !.teacherId = [kind |-> "null"]]

\* C13: POST /class with a valid token, standard and section given, and a
\* teacherId (a well-formed id) that is the id of no teacher is answered 200
\* and stores a new class holding that teacherId; and every GET /classes
\* lists each class whose teacherId is the id of no teacher, with a null
\* teacher field.
C13_DanglingTeacherStoredAndListedNull ==
    [][/\ \A h \in BearerHeaders, body \in ClassBodies :
             (/\ last'.op = "POST /class"
              /\ NoSuchTeacher(body.teacherId)
              /\ Required(body.standard) /\ Required(body.section)
              /\ PostClass(h, {body}))
             => /\ last'.status = 200
                /\ IdsOf(classes') = IdsOf(classes) \cup {last'.class.id}
                /\ last'.class.id \notin IdsOf(classes)
                /\ classes'[last'.class.id].teacherId = body.teacherId
                /\ classes'[last'.class.id].standard = body.standard
                /\ classes'[last'.class.id].section = body.section
       /\ (last' # last /\ last'.op = "GET /classes"
             /\ Verified(last'.hdr, now))
            => /\ last'.status = 200
               /\ Len(last'.body) = Cardinality(IdsOf(classes))
               /\ \A c \in IdsOf(classes) :
                     NoSuchTeacher(classes[c].teacherId)
                        => ListedWithNullTeacher(last'.body, c)]_vars

C13_Witness ==
    /\ last.op = "GET /classes"
    /\ last.status = 200
    /\ \E c \in IdsOf(classes) :
          /\ classes[c].teacherId = Some(DanglingId)
          /\ ListedWithNullTeacher(last.body, c)


----------------------------------------------------------------------------
(* The class endpoints with every kind of update: one teacher, no clock *)

\* Bodies of PUT /class/:id: req.body goes to findByIdAndUpdate as it is
AnyClassUpdates ==
    {[status |-> Some("INACTIVE")], [status |-> Some("BOGUS")],
     [standard |-> Some("6")],
     [standard |-> Some("6"), status |-> Some("INACTIVE")]}

ClassOps == {"POST /class", "PUT /class", "GET /classes"}

NextClass ==
    \/ Register(1, OneRegBody)
    \/ RegisterSave(1, {"s1"})
    \/ Login(OneLoginBody)
    \/ \E h \in BearerHeaders, op \in ClassOps : GateRejects(op, h)
    \/ \E h \in BearerHeaders : PostClass(h, ClassBodies)
    \/ \E h \in BearerHeaders :
          PutClass(h, Params("classes"), AnyClassUpdates)
    \/ \E h \in BearerHeaders : GetClasses(h)

SpecClass == Init /\ [][NextClass]_vars

\* C14: every stored class has a status of ACTIVE or INACTIVE and has its
\* standard and its section.
C14_ClassRecordsWellFormed ==
    \A c \in IdsOf(classes) :
        /\ classes[c].status \in {Some("ACTIVE"), Some("INACTIVE")}
        /\ Required(classes[c].standard)
        /\ Required(classes[c].section)


----------------------------------------------------------------------------
(* The listings only read *)

ListingOps == {"GET /classes", "GET /students", "GET /public/students"}

\* C15: a step that answers GET /classes, GET /students or
\* GET /public/students leaves the teachers, classes and students
\* collections exactly as they were; in particular a reference that does not
\* resolve stays stored.
C15_ListingsLeaveStoreUnchanged ==
    [][(\/ last'.op \in ListingOps /\ last' # last
        \/ GetPublicStudents
        \/ \E h \in BearerHeaders : GetClasses(h) \/ GetStudents(h))
          => /\ UNCHANGED <<teachers, classes, students, nextId>>
             /\ \A s \in IdsOf(students) :
                   Dangling(s) => students'[s].classId = students[s].classId
             /\ \A c \in IdsOf(classes) :
                   NoSuchTeacher(classes[c].teacherId)
                      => classes'[c].teacherId = classes[c].teacherId]_vars

C15_Witness ==
    /\ last.op = "GET /students"
    /\ last.status = 200
    /\ \E s \in IdsOf(students) :
          Dangling(s) /\ ListedWithNullClass(last.body, s)
    /\ \E c \in IdsOf(classes) : NoSuchTeacher(classes[c].teacherId)


----------------------------------------------------------------------------
(* Updates of classes and students: one teacher, no clock, one kind of new
   student and every kind of update *)

OneStudentBody ==
    [firstName |-> <<"S">>, lastName |-> <<"L">>, classId |-> None,
     parentName |-> <<"P">>, address |-> <<"x">>, city |-> <<"y">>]

\* Bodies of PUT /student/:id
AnyStudentUpdates ==
    {[firstName |-> <<"T">>], [firstName |-> <<"T">>, city |-> <<"z">>],
     [classId |-> Some(DanglingId)]}
    \cup {[classId |-> Some(c)] : c \in Allocated("classes")}

ValidHeaders == {Bearer(i.token) : i \in issued}

NextUpdate ==
    \/ Register(1, OneRegBody)
    \/ RegisterSave(1, {"s1"})
    \/ Login(OneLoginBody)
    \/ \E h \in ValidHeaders : PostClass(h, ClassBodies)
    \/ \E h \in ValidHeaders :
          PutClass(h, Params("classes"), AnyClassUpdates)
    \/ \E h \in ValidHeaders : PostStudent(h, {OneStudentBody})
    \/ \E h \in ValidHeaders :
          PutStudent(h, Params("students"), AnyStudentUpdates)
    \/ \E h \in ValidHeaders : DeleteStudent(h, Params("students"))

SpecUpdate == Init /\ [][NextUpdate]_vars

\* The document after merging update into doc: the fields update gives hold
\* its values, the others are those of doc
MergedInto(new, doc, update) ==
    /\ DOMAIN new = DOMAIN doc
    /\ \A f \in DOMAIN doc :
          new[f] = IF f \in DOMAIN update THEN update[f] ELSE doc[f]

\* PUT on record id of collection coll, giving coll2 and the response field r
UpdatedOnly(coll, coll2, id, update, r) ==
    IF id \notin IdsOf(coll)
    THEN r = [kind |-> "null"] /\ coll2 = coll
    ELSE /\ IdsOf(coll2) = IdsOf(coll)
         /\ \A i \in IdsOf(coll) \ {id} : coll2[i] = coll[i]
         /\ MergedInto(coll2[id], coll[id], update)
         /\ r = [kind |-> "doc", id |-> id, doc |-> coll2[id]]

\* C16: PUT /class/:id and PUT /student/:id with a valid token and a
\* well-formed id. When no record has the id: the answer is the success
\* response (200, no error) with a null class/student field and the store is
\* unchanged. When a record has it: that record's fields named in the
\* request take the given values, its other fields and every other record
\* stay as they were, and the response carries the record's new state.
C16_UpdateMergesOrReturnsNull ==
    [][/\ \A h \in ValidHeaders, param \in Params("classes"),
             update \in AnyClassUpdates :
             (/\ last'.op = "PUT /class"
              /\ param.ok
              /\ PutClass(h, {param}, {update}))
             => /\ Says(last', 200, "Class updated successfully")
                /\ ~Has(last', "error")
                /\ UpdatedOnly(classes, classes', param.id, update,
                               last'.class)
                /\ UNCHANGED <<teachers, students, nextId>>
       /\ \A h \in ValidHeaders, param \in Params("students"),
             update \in AnyStudentUpdates :
             (/\ last'.op = "PUT /student"
              /\ param.ok
              /\ PutStudent(h, {param}, {update}))
             => /\ Says(last', 200, "Student updated successfully")
                /\ ~Has(last', "error")
                /\ UpdatedOnly(students, students', param.id, update,
                               last'.student)
                /\ UNCHANGED <<teachers, classes, nextId>>]_vars

C16_Witness ==
    /\ last.op = "PUT /student"
    /\ last.status = 200
    /\ last.student.kind = "doc"
    /\ Cardinality(IdsOf(students)) = 2
    /\ last.student.doc.firstName = <<"T">>
    /\ last.student.doc.city = <<"z">>
    /\ last.student.doc.lastName = <<"L">>
    /\ \E s \in IdsOf(students) : students[s] = OneStudentBody


----------------------------------------------------------------------------
(* Deletes *)

\* coll2 is coll without record id, every other record as it was
RemovedOnly(coll, coll2, id) ==
    /\ IdsOf(coll2) = IdsOf(coll) \ {id}
    /\ \A i \in IdsOf(coll2) : coll2[i] = coll[i]

\* The last response is the success of a delete of param on route op
JustDeleted(op, param) ==
    last.op = op /\ last.status = 200 /\ last.param = param

\* C17: DELETE /class/:id and DELETE /student/:id with a valid token and a
\* well-formed id answer the success response whether or not a record has the
\* id; afterwards no record has it, and every other record of every
\* collection is as it was; and the same delete made again after it
\* succeeded changes nothing in the store and succeeds again.
C17_DeleteUnconditionalIdempotent ==
    [][/\ \A h \in ValidHeaders, param \in Params("classes") :
             (/\ last'.op = "DELETE /class"
              /\ param.ok
              /\ DeleteClass(h, {param}))
             => /\ Says(last', 200, "Class deleted successfully")
                /\ RemovedOnly(classes, classes', param.id)
                /\ UNCHANGED <<teachers, students, nextId>>
                /\ JustDeleted("DELETE /class", param)
                     => classes' = classes
       /\ \A h \in ValidHeaders, param \in Params("students") :
             (/\ last'.op = "DELETE /student"
              /\ param.ok
              /\ DeleteStudent(h, {param}))
             => /\ Says(last', 200, "Student deleted successfully")
                /\ RemovedOnly(students, students', param.id)
                /\ UNCHANGED <<teachers, classes, nextId>>
                /\ JustDeleted("DELETE /student", param)
                     => students' = students]_vars

C17_Witness ==
    /\ last.op = "DELETE /student"
    /\ last.status = 200
    /\ last.param.ok
    /\ last.param.id \in Allocated("students") \ IdsOf(students)
    /\ Cardinality(IdsOf(students)) = 1
    /\ IdsOf(classes) # {}


----------------------------------------------------------------------------
(* Failures of the store and of bcrypt: every await inside a handler's try
   block may reject, and the handler's catch answers *)

StoreError == "MongoError"
HashError == "BcryptError"

\* POST /register when Teacher.findOne rejects
RegisterFindFails(p, body) ==
    /\ reg[p].pc = "idle"
    /\ \A q \in RegProcs : q < p => reg[q].pc # "idle"
    /\ teacherRegistrationValidator(body) = <<>>
    /\ last' = [op |-> "register", req |-> body, status |-> 500,
                error |-> StoreError]
    /\ UNCHANGED <<teachers, classes, students, nextId, now, ticks,
                   listing, issued,
                   submitted, reg>>

\* A registration that tries the save again after a failure
RegisterRetries(p, error) ==
    /\ reg[p].pc = "save"
    /\ LET doc == [name |-> reg[p].req.name, email |-> reg[p].req.email,
                   password |-> <<"$2a$10$", "s1">>,
                   address |-> reg[p].req.address, status |-> "ACTIVE"]
       IN /\ teachers' = [i \in DOMAIN teachers \cup {nextId.teachers} |->
                            IF i = nextId.teachers THEN doc ELSE teachers[i]]
          /\ last' = [op |-> "register", req |-> reg[p].req, status |-> 200,
                      user |-> [id |-> nextId.teachers, doc |-> doc],
                      message |-> "Registration is done successfully"]
    /\ nextId' = [nextId EXCEPT !.teachers = @ + 1]
    /\ reg' = [reg EXCEPT ![p] = [pc |-> "idle"]]
    /\ UNCHANGED <<classes, students, now, ticks, listing, issued, submitted>>

\* POST /register when bcrypt.hash or newTeacher.save rejects
RegisterFails(p, error) ==
    /\ reg[p].pc = "save"
    /\ last' = [op |-> "register", req |-> reg[p].req, status |-> 500,
                error |-> error]
    /\ reg' = [reg EXCEPT ![p] = Idle]
    /\ UNCHANGED <<teachers, classes, students, nextId, now, ticks,
                   listing, issued,
                   submitted>>

\* POST /login when Teacher.findOne or bcrypt.compare rejects
LoginFails(body, error) ==
    /\ teacherLoginValidator(body) = <<>>
    /\ error = HashError => FindTeachersByEmail(body.email) # {}
    /\ last' = [op |-> "login", req |-> body, status |-> 500,
                error |-> error]
    /\ UNCHANGED <<teachers, classes, students, nextId, now, ticks,
                   listing, issued,
                   submitted, reg>>

\* A protected route when the store operation of its handler rejects
HandlerFails(op, h) ==
    /\ authenticateToken(h, now) = "next"
    /\ last' = ServerError(op, h, StoreError)
    /\ UNCHANGED <<classes, students, nextId>>
    /\ UnchangedAuth

\* GET /public/students when find or populate rejects
PublicStudentsFails ==
    /\ last' = [op |-> "GET /public/students", status |-> 500,
                error |-> StoreError]
    /\ UNCHANGED <<classes, students, nextId>>
    /\ UnchangedAuth

NextFault ==
    \/ \E p \in RegProcs : Register(p, OneRegBody)
    \/ \E p \in RegProcs : RegisterSave(p, {"s1"})
    \/ Login(OneLoginBody)
    \/ \E p \in RegProcs : RegisterFindFails(p, OneRegBody)
    \/ \E p \in RegProcs, e \in {HashError, StoreError} : RegisterFails(p, e)
    \/ \E e \in {HashError, StoreError} : LoginFails(OneLoginBody, e)
    \/ \E h \in ValidHeaders : PostClass(h, ClassBodies)
    \/ \E h \in ValidHeaders : PostStudent(h, {OneStudentBody})
    \/ \E h \in ValidHeaders : DeleteClass(h, Params("classes"))
    \/ \E h \in ValidHeaders : GetStudents(h)
    \/ \E h \in ValidHeaders, op \in ProtectedOps : HandlerFails(op, h)
    \/ PublicStudentsFails

SpecFault == Init /\ [][NextFault]_vars

\* The step is a request in which a store operation or the hashing fails
FaultStep(p) ==
    \/ RegisterFindFails(p, OneRegBody)
    \/ \E e \in {HashError, StoreError} : RegisterFails(p, e)
    \/ \E e \in {HashError, StoreError} : LoginFails(OneLoginBody, e)
    \/ \E h \in ValidHeaders, op \in ProtectedOps : HandlerFails(op, h)
    \/ PublicStudentsFails

\* C18: a request in which a store operation or the hashing fails is
\* answered 500 with the error; it stores nothing, issues no token, and is
\* over with that response: no registration is left in flight that was not
\* in flight before, and the failed registration is not.
C18_FailureAnswered500StoreKept ==
    [][\A p \in RegProcs :
          FaultStep(p)
          => /\ last'.status = 500
             /\ Has(last', "error")
             /\ ~Has(last', "token") /\ ~Has(last', "body")
             /\ UNCHANGED <<teachers, classes, students, nextId, issued>>
             /\ \A q \in RegProcs : reg'[q] # Idle => reg'[q] = reg[q]
             /\ (\E e \in {HashError, StoreError} : RegisterFails(p, e))
                   => reg'[p] = Idle]_vars

C18_Witness ==
    /\ last.op = "register"
    /\ last.status = 500
    /\ last.error = HashError
    /\ IdsOf(teachers) # {}
    /\ IdsOf(classes) # {}
    /\ \A p \in RegProcs : reg[p] = Idle


----------------------------------------------------------------------------
(* The student listings read by read: Student.find(), then populate's query
   on classes, then its query on teachers, with writes in between *)

\* The ids a set of documents refers to through path
Referenced(docs, path) ==
    {docs[d][path][1] : d \in {x \in DOMAIN docs : docs[x][path] # None}}

\* populate's query: the documents of coll whose _id is referred to
Lookup(coll, ids) == [i \in ids \cap IdsOf(coll) |-> coll[i]]

\* populate's assignment of the documents found to the paths
AssignTeacher(ref, tch) ==
    IF ref = None THEN [kind |-> "undefined"]
    ELSE IF ref[1] \in DOMAIN tch
    THEN [kind |-> "doc", id |-> ref[1], doc |-> tch[ref[1]]]
    ELSE [kind |-> "null"]

AssignClass(ref, cls, tch) ==
    IF ref = None THEN [kind |-> "undefined"]
    ELSE IF ref[1] \in DOMAIN cls
    THEN [kind |-> "doc",
          class |-> [id |-> ref[1],
                     doc |-> [cls[ref[1]] EXCEPT
                                !.teacherId = AssignTeacher(@, tch)]]]
    ELSE [kind |-> "null"]

\* An assignment that keeps only the students whose class was found
AssembleInnerJoin(found, cls, tch) ==
    LET ids == SortedSeq({s \in DOMAIN found :
                            found[s].classId # <<>>
                               => found[s].classId[1] \in DOMAIN cls})
    IN [i \in 1..Len(ids) |->
          [id |-> ids[i],
           doc |-> [found[ids[i]] EXCEPT
                      !.classId = AssignClass(@, cls, tch)]]]

\* The array res.send(students) sends
Assemble(found, cls, tch) ==
    LET ids == SortedSeq(DOMAIN found)
    IN [i \in 1..Len(ids) |->
          [id |-> ids[i],
           doc |-> [found[ids[i]] EXCEPT
                      !.classId = AssignClass(@, cls, tch)]]]

UnchangedByListing ==
    UNCHANGED <<teachers, classes, students, nextId, now, ticks, issued,
                submitted, reg>>

\* GET /students (after the gate) or GET /public/students: Student.find()
ListStudentsFind(op, h) ==
    /\ listing.pc = "idle"
    /\ op = "GET /students" => authenticateToken(h, now) = "next"
    /\ listing' = [pc |-> "classes", op |-> op, hdr |-> h,
                   found |-> students]
    /\ UNCHANGED last
    /\ UnchangedByListing

\* populate's query on classes; seen records the collection it ran on
ListStudentsClasses ==
    /\ listing.pc = "classes"
    /\ listing' = [pc |-> "teachers", op |-> listing.op, hdr |-> listing.hdr,
                   found |-> listing.found,
                   cls |-> Lookup(classes,
                                  Referenced(listing.found, "classId")),
                   seen |-> classes]
    /\ UNCHANGED last
    /\ UnchangedByListing

\* populate's query on teachers, and res.send(students)
ListStudentsRespond ==
    /\ listing.pc = "teachers"
    /\ LET tch == Lookup(teachers, Referenced(listing.cls, "teacherId"))
           body == Assemble(listing.found, listing.cls, tch)
       IN last' = IF listing.op = "GET /students"
                  THEN [op |-> listing.op, hdr |-> listing.hdr,
                        status |-> 200, body |-> body]
                  ELSE [op |-> listing.op, status |-> 200, body |-> body]
    /\ listing' = NotListing
    /\ UnchangedByListing

ListClassBodies ==
    [standard : {Some("5")}, section : {Some("A")},
     teacherId : {Some(DanglingId)}
                   \cup {Some(t) : t \in Allocated("teachers")}]

ListStudentBodies ==
    [firstName : {<<"S">>}, lastName : {<<"L">>},
     classId : {None} \cup {Some(c) : c \in Allocated("classes")},
     parentName : {<<"P">>}, address : {<<"x">>}, city : {<<"y">>}]

NextList ==
    \/ Register(1, OneRegBody)
    \/ RegisterSave(1, {"s1"})
    \/ Login(OneLoginBody)
    \/ \E h \in ValidHeaders : PostClass(h, ListClassBodies)
    \/ \E h \in ValidHeaders : PostStudent(h, ListStudentBodies)
    \/ \E h \in ValidHeaders : DeleteClass(h, Params("classes"))
    \/ \E h \in ValidHeaders : DeleteStudent(h, Params("students"))
    \/ \E h \in ValidHeaders : ListStudentsFind("GET /students", h)
    \/ ListStudentsFind("GET /public/students", NoHeader)
    \/ ListStudentsClasses
    \/ ListStudentsRespond

SpecList == Init /\ [][NextList]_vars

\* What the listing shows for a student read as doc, given the classes
\* collection its class lookup ran on: the student's own fields, and a class
\* field that is undefined when the student has no classId, else the class
\* with that id as it was at the lookup, or null when there was none
ShownFaithfully(entry, doc, seen) ==
    /\ DOMAIN entry = DOMAIN doc
    /\ \A f \in DOMAIN doc \ {"classId"} : entry[f] = doc[f]
    /\ IF doc.classId = None THEN entry.classId = [kind |-> "undefined"]
       ELSE IF doc.classId[1] \notin IdsOf(seen)
       THEN entry.classId = [kind |-> "null"]
       ELSE /\ entry.classId.kind = "doc"
            /\ entry.classId.class.id = doc.classId[1]
            /\ \A f \in {"standard", "section", "status"} :
                  entry.classId.class.doc[f] = seen[doc.classId[1]][f]

\* C19: a student listing whose three store reads are interleaved with
\* DELETE /class (and the other writes) always goes on to its response, and
\* the response is a success with exactly one entry for every student read
\* by Student.find(), each with a class field that is the class as it was at
\* the class lookup, or null when no class had that id then.
C19_ListingSurvivesConcurrentDelete ==
    /\ [](/\ listing.pc = "classes" => ENABLED ListStudentsClasses
          /\ listing.pc = "teachers" => ENABLED ListStudentsRespond)
    /\ [][ListStudentsRespond
            => /\ last'.op = listing.op
               /\ last'.status = 200
               /\ Len(last'.body) = Cardinality(DOMAIN listing.found)
               /\ \A s \in DOMAIN listing.found :
                     \E k \in 1..Len(last'.body) :
                         /\ last'.body[k].id = s
                         /\ ShownFaithfully(last'.body[k].doc,
                                            listing.found[s],
                                            listing.seen)]_vars

\* A listing has shown a student with its class although the class was
\* deleted before the response: the delete fell between the class lookup and
\* the response
C19_Witness ==
    /\ last.op = "GET /students"
    /\ last.status = 200
    /\ \E k \in 1..Len(last.body) :
          /\ last.body[k].doc.classId.kind = "doc"
          /\ last.body[k].doc.classId.class.id \notin IdsOf(classes)
    /\ Len(last.body) = 2


----------------------------------------------------------------------------
(* The gate and the store *)

\* C20: the gate's outcome for a header does not change with the store:
\* across every step that creates, updates or deletes a record, every header
\* gets the outcome it got before. So a request carrying a
\* token that login issued is answered by the gate ("Invalid Token") exactly
\* when the token has expired, and never as a request without token,
\* whatever the store holds.
C20_GateIgnoresStore ==
    [][/\ (/\ <<teachers, classes, students>>' # <<teachers, classes, students>>
           /\ now' = now)
            => \A h \in BearerHeaders :
                  authenticateToken(h, now)' = authenticateToken(h, now)
       /\ \A i \in issued :
             (/\ last' # last
              /\ last'.op \in ProtectedOps
              /\ last'.hdr = Bearer(i.token))
             => /\ Says(last', 400, "Invalid Token")
                     <=> NowSec(now) >= i.token.exp
                /\ last'.status # 401]_vars

C20_Witness ==
    /\ last.op = "GET /students"
    /\ last.status = 200
    /\ \E i \in issued : last.hdr = Bearer(i.token)
    /\ Allocated("classes") \ IdsOf(classes) # {}
    /\ Allocated("students") \ IdsOf(students) # {}
    /\ IdsOf(students) # {}
    /\ ticks > 0

=============================================================================
